---- MODULE Spec2Model ----
(***************************************************************************)
(* The pongo2 lexer (src/lexer.go): lex() creates a lexer over an input    *)
(* string, run() scans literal text, single-line comments and tags, and    *)
(* the state functions stateCode / stateIdentifier / stateNumber /         *)
(* stateString tokenize the inside of a tag.                               *)
(*                                                                         *)
(* The input is a sequence of bytes, each byte written as a one-element    *)
(* string ("{", "a", "\n", ...).  Three bytes that are not printable ASCII *)
(* have names: "\\x01" (U+0001) and the two bytes "\\xC3" "\\xA9" of the   *)
(* UTF-8 encoding of U+00E9.  Byte offsets (start, pos) are 0-based as in  *)
(* Go; runes are integer code points.                                      *)
(***************************************************************************)
EXTENDS Integers, Sequences, FiniteSets, TLC

VARIABLES l, pc, ret, other

vars == <<l, pc, ret, other>>

(***************************************************************************)
(* Bytes, runes and strings                                                *)
(***************************************************************************)

\* The printable ASCII characters in code point order, from U+0020 (the
\* grave accent is written by its name).
Printable ==
  << " ", "!", "\"", "#", "$", "%", "&", "'", "(", ")", "*", "+", ",", "-", ".", "/",
     "0", "1", "2", "3", "4", "5", "6", "7", "8", "9", ":", ";", "<", "=", ">", "?",
     "@", "A", "B", "C", "D", "E", "F", "G", "H", "I", "J", "K", "L", "M", "N", "O",
     "P", "Q", "R", "S", "T", "U", "V", "W", "X", "Y", "Z", "[", "\\", "]", "^", "_",
     "U+0060", "a", "b", "c", "d", "e", "f", "g", "h", "i", "j", "k", "l", "m", "n", "o",
     "p", "q", "r", "s", "t", "u", "v", "w", "x", "y", "z", "{", "|", "}", "~" >>

Range(s) == {s[i] : i \in 1..Len(s)}

Bytes == Range(Printable) \cup {"\t", "\n", "\r", "\\x01", "\\xC3", "\\xA9"}

\* The value of a byte.
Ord ==
  [b \in Bytes |->
     CASE b = "\t" -> 9
       [] b = "\n" -> 10
       [] b = "\r" -> 13
       [] b = "\\x01" -> 1
       [] b = "\\xC3" -> 195
       [] b = "\\xA9" -> 169
       [] OTHER -> 31 + CHOOSE i \in 1..Len(Printable) : Printable[i] = b]

RuneSelf == 128

RuneError == 65533

\* s[a:b] of Go, on 0-based byte offsets.
Slice(s, a, b) == SubSeq(s, a + 1, b)

\* s[a:]
SliceFrom(s, a) == SubSeq(s, a + 1, Len(s))

\* strings.HasPrefix
HasPrefix(s, prefix) ==
  /\ Len(s) >= Len(prefix)
  /\ SubSeq(s, 1, Len(prefix)) = prefix

\* utf8.DecodeRuneInString on a non-empty string: the rune and its width.
\* A byte below RuneSelf is its own rune; of the multi-byte encodings the
\* bytes of the model can form only C3 A9 (U+00E9); any other byte is invalid
\* and decodes to RuneError of width 1.
DecodeRuneInString(s) ==
  IF Ord[s[1]] < RuneSelf
  THEN [r |-> Ord[s[1]], w |-> 1]
  ELSE IF s[1] = "\\xC3" /\ Len(s) >= 2 /\ s[2] = "\\xA9"
       THEN [r |-> 233, w |-> 2]
       ELSE [r |-> RuneError, w |-> 1]

\* strings.IndexRune(s, r) for an ASCII string s: the 0-based index of the
\* first byte of s that is the rune r, or -1.
IndexRune(s, r) ==
  IF \E i \in 1..Len(s) : Ord[s[i]] = r
  THEN (CHOOSE i \in 1..Len(s) : Ord[s[i]] = r /\ \A j \in 1..(i - 1) : Ord[s[j]] # r) - 1
  ELSE -1

(***************************************************************************)
(* Constants and tables of lexer.go                                        *)
(***************************************************************************)

TokenError == 0
EOF == 1
TokenHTML == 2
TokenKeyword == 3
TokenIdentifier == 4
TokenString == 5
TokenNumber == 6
TokenSymbol == 7

tokenSpaceChars == <<" ", "\n", "\r", "\t">>

tokenIdentifierChars ==
  << "a", "b", "c", "d", "e", "f", "g", "h", "i", "j", "k", "l", "m", "n", "o", "p",
     "q", "r", "s", "t", "u", "v", "w", "x", "y", "z",
     "A", "B", "C", "D", "E", "F", "G", "H", "I", "J", "K", "L", "M", "N", "O", "P",
     "Q", "R", "S", "T", "U", "V", "W", "X", "Y", "Z", "_" >>

tokenDigits == <<"0", "1", "2", "3", "4", "5", "6", "7", "8", "9">>

\* The symbol table with the one-character symbols first.
tokenSymbolsShortFirst ==
  << <<"(">>, <<")">>, <<"+">>, <<"-">>, <<"*">>, <<"<">>, <<">">>, <<"/">>, <<"^">>,
     <<",">>, <<".">>, <<"!">>, <<"|">>, <<":">>, <<"=">>,
     <<"=", "=">>, <<">", "=">>, <<"<", "=">>, <<"&", "&">>, <<"|", "|">>,
     <<"{", "{">>, <<"}", "}">>, <<"{", "%">>, <<"%", "}">>, <<"!", "=">>, <<"<", ">">> >>

tokenSymbols ==
  << <<"=", "=">>, <<">", "=">>, <<"<", "=">>, <<"&", "&">>, <<"|", "|">>,
     <<"{", "{">>, <<"}", "}">>, <<"{", "%">>, <<"%", "}">>, <<"!", "=">>, <<"<", ">">>,
     <<"(">>, <<")">>, <<"+">>, <<"-">>, <<"*">>, <<"<">>, <<">">>, <<"/">>, <<"^">>,
     <<",">>, <<".">>, <<"!">>, <<"|">>, <<":">>, <<"=">> >>

tokenKeywords ==
  << <<"i", "n">>, <<"a", "n", "d">>, <<"o", "r">>, <<"n", "o", "t">>,
     <<"t", "r", "u", "e">>, <<"f", "a", "l", "s", "e">> >>

\* The name lex is called with; it only appears in the error text.
TemplateName == "tpl"

(***************************************************************************)
(* The lexer's methods, as functions from a lexer record to the record     *)
(* after the call (and the returned value, when there is one).             *)
(***************************************************************************)

\* lex: the lexer as constructed (lines 92-100).
NewLexer(name, input) ==
  [ name |-> name, input |-> input, start |-> 0, pos |-> 0, width |-> 0,
    tokens |-> <<>>, errored |-> FALSE,
    startline |-> 1, startcol |-> 1, line |-> 1, col |-> 1 ]

value(lx) == Slice(lx.input, lx.start, lx.pos)

emit(lx, t) ==
  [lx EXCEPT
     !.tokens = Append(@, [Typ |-> t, Val |-> value(lx),
                           Line |-> lx.startline, Col |-> lx.startcol]),
     !.start = lx.pos,
     !.startline = lx.line,
     !.startcol = lx.col]

\* next: the lexer after the call and the rune returned.
next(lx) ==
  IF lx.pos >= Len(lx.input)
  THEN [l |-> [lx EXCEPT !.width = 0], r |-> EOF]
  ELSE LET d == DecodeRuneInString(SliceFrom(lx.input, lx.pos))
       IN [l |-> [lx EXCEPT !.width = d.w, !.pos = @ + d.w], r |-> d.r]

backup(lx) == [lx EXCEPT !.pos = @ - lx.width]

\* peek without the backup of line 144: the rune looked at is consumed.
peekNoBackup(lx) ==
  LET n == next(lx)
  IN [l |-> n.l, r |-> n.r]

peek(lx) ==
  LET n == next(lx)
  IN [l |-> backup(n.l), r |-> n.r]

ignore(lx) == [lx EXCEPT !.start = lx.pos]

\* accept: the lexer after the call and the boolean returned.
\* On(lexer) is written with CHOOSE so that TLC evaluates the lexer a single
\* time, as a call evaluates its receiver: TLC evaluates the argument of an
\* operator anew at each use when it computes ENABLED.
accept(lexer, what) ==
  LET On(lx) ==
        LET n == next(lx)
        IN IF IndexRune(what, n.r) >= 0
           THEN [l |-> n.l, ok |-> TRUE]
           ELSE [l |-> backup(n.l), ok |-> FALSE]
  IN CHOOSE res \in {On(x) : x \in {lexer}} : TRUE

RECURSIVE acceptRun(_, _)
acceptRun(lexer, what) ==
  LET On(lx) ==
        LET n == next(lx)
        IN IF IndexRune(what, n.r) >= 0
           THEN acceptRun(n.l, what)
           ELSE backup(n.l)
  IN CHOOSE res \in {On(x) : x \in {lexer}} : TRUE

\* errorf: msg is the formatted message, a sequence whose first element is
\* the format's text and whose other elements are the arguments.
errorf(lx, msg) ==
  [lx EXCEPT
     !.tokens = Append(@, [Typ |-> TokenError, Val |-> msg,
                           Line |-> lx.startline, Col |-> lx.startcol]),
     !.errored = TRUE,
     !.startline = lx.line,
     !.startcol = lx.col]

(***************************************************************************)
(* The steps of a scan.  pc is the place of control:                       *)
(*   "run"             top of the loop of run (line 185)                   *)
(*   "comment"         top of the comment loop of run (line 195)           *)
(*   "stateCode"       tokenize is about to call stateCode; each step is   *)
(*                     one iteration of its loop (line 255)                *)
(*   "stateIdentifier", "stateNumber", "stateString"                       *)
(*                     tokenize is about to call that state function       *)
(*   "stateStringLoop" the loop condition of stateString (line 338)        *)
(*   "lex"             run has returned to lex (line 102)                  *)
(*   "done"            lex has returned; ret is what it returned           *)
(* Each operator gives the lexer and the place of control after the step.  *)
(***************************************************************************)

AtComment(lx) == HasPrefix(SliceFrom(lx.input, lx.pos), <<"{", "#">>)

AtTag(lx) ==
  \/ HasPrefix(SliceFrom(lx.input, lx.pos), <<"{", "{">>)
  \/ HasPrefix(SliceFrom(lx.input, lx.pos), <<"{", "%">>)

\* run, lines 188-190 and 221-223: the pending text becomes an HTML token.
\* flushHTML when the pending text is not emitted (lines 189-191 and
\* 220-222 left out).
flushHTMLNever(lx) == lx

flushHTML(lx) == IF lx.pos > lx.start THEN emit(lx, TokenHTML) ELSE lx

\* run, lines 187-193: a comment opens.
runCommentOpen(lx) ==
  LET l1 == flushHTML(lx)
  IN [l |-> [l1 EXCEPT !.pos = @ + 2, !.col = @ + 2], pc |-> "comment"]

\* runCommentLoop without lines 210-211: a character of the comment is
\* looked at and left where it is.
runCommentLoopNoAdvance(lx) ==
  LET p == peek(lx)
  IN CASE p.r = EOF ->
            [l |-> errorf(p.l, <<"Single-line comment not closed.">>), pc |-> "lex"]
       [] p.r # EOF /\ p.r = Ord["\n"] ->
            [l |-> errorf(p.l, <<"Newline not permitted in a single-line comment.">>),
             pc |-> "lex"]
       [] OTHER ->
            IF HasPrefix(SliceFrom(p.l.input, p.l.pos), <<"#", "}">>)
            THEN [l |-> ignore([p.l EXCEPT !.pos = @ + 2, !.col = @ + 2]), pc |-> "run"]
            ELSE [l |-> p.l, pc |-> "comment"]

\* run, lines 195-216: one iteration of the comment loop.
runCommentLoop(lx) ==
  LET p == peek(lx)
  IN CASE p.r = EOF ->
            [l |-> errorf(p.l, <<"Single-line comment not closed.">>), pc |-> "lex"]
       [] p.r # EOF /\ p.r = Ord["\n"] ->
            [l |-> errorf(p.l, <<"Newline not permitted in a single-line comment.">>),
             pc |-> "lex"]
       [] OTHER ->
            IF HasPrefix(SliceFrom(p.l.input, p.l.pos), <<"#", "}">>)
            THEN [l |-> ignore([p.l EXCEPT !.pos = @ + 2, !.col = @ + 2]), pc |-> "run"]
            ELSE [l |-> [p.l EXCEPT !.pos = @ + 1, !.col = @ + 1], pc |-> "comment"]

\* run, lines 219-227: a tag opens and tokenize is called.
runTagOpen(lx) == [l |-> flushHTML(lx), pc |-> "stateCode"]

\* run, lines 228-239 and, after the break, 242-244.
runText(lx) ==
  LET p == peek(lx)
      l1 == IF p.r = Ord["\n"]
            THEN [p.l EXCEPT !.line = @ + 1, !.col = 1]
            ELSE [p.l EXCEPT !.col = @ + 1]
      n == next(l1)
  IN IF n.r = EOF
     THEN [l |-> flushHTML(n.l), pc |-> "lex"]
     ELSE [l |-> n.l, pc |-> "run"]

\* stateCode, lines 275-288: the first entry of tokenSymbols that is a
\* prefix of input[start:], as an index, or 0 when there is none.
matchSymbol(lx) ==
  LET hits == {i \in 1..Len(tokenSymbols) :
                 HasPrefix(SliceFrom(lx.input, lx.start), tokenSymbols[i])}
  IN IF hits = {} THEN 0 ELSE CHOOSE i \in hits : \A j \in hits : i <= j

\* isTagEnd when only the end of a variable is looked for.
isTagEndVariableOnly(sym) == sym = <<"}", "}">>

isTagEnd(sym) == sym = <<"%", "}">> \/ sym = <<"}", "}">>

\* stateCodeSymbol when run does not test errored after tokenize (lines
\* 225-227 left out): the loop of run goes on after the error.
stateCodeSymbolScanOn(lexer) ==
  LET On(lx) ==
        LET i == matchSymbol(lx)
        IN IF i # 0
           THEN LET sym == tokenSymbols[i]
                    l1 == emit([lx EXCEPT !.pos = @ + Len(sym), !.col = @ + Len(sym)],
                               TokenSymbol)
                IN [l |-> l1, pc |-> IF isTagEnd(sym) THEN "run" ELSE "stateCode"]
           ELSE IF lx.pos < Len(lx.input)
                THEN LET p1 == peek(lx)
                         p2 == peek(p1.l)
                     IN [l |-> errorf(p2.l, <<"Unknown character: %q (%d)", p1.r, p2.r>>),
                         pc |-> "run"]
                ELSE [l |-> lx, pc |-> "run"]
  IN CHOOSE res \in {On(x) : x \in {lexer}} : TRUE

\* stateCodeSymbol when the end of the input inside a tag is reported as an
\* error.
stateCodeSymbolStrictEnd(lexer) ==
  LET On(lx) ==
        LET i == matchSymbol(lx)
        IN IF i # 0
           THEN LET sym == tokenSymbols[i]
                    l1 == emit([lx EXCEPT !.pos = @ + Len(sym), !.col = @ + Len(sym)],
                               TokenSymbol)
                IN [l |-> l1, pc |-> IF isTagEnd(sym) THEN "run" ELSE "stateCode"]
           ELSE IF lx.pos < Len(lx.input)
                THEN LET p1 == peek(lx)
                         p2 == peek(p1.l)
                     IN [l |-> errorf(p2.l, <<"Unknown character: %q (%d)", p1.r, p2.r>>),
                         pc |-> "lex"]
                ELSE [l |-> errorf(lx, <<"Unexpected EOF, tag not closed.">>), pc |-> "lex"]
  IN CHOOSE res \in {On(x) : x \in {lexer}} : TRUE

\* stateCode, lines 274-298: from the symbol check on.
stateCodeSymbol(lexer) ==
  LET On(lx) ==
        LET i == matchSymbol(lx)
        IN IF i # 0
           THEN LET sym == tokenSymbols[i]
                    l1 == emit([lx EXCEPT !.pos = @ + Len(sym), !.col = @ + Len(sym)],
                               TokenSymbol)
                IN [l |-> l1, pc |-> IF isTagEnd(sym) THEN "run" ELSE "stateCode"]
           ELSE IF lx.pos < Len(lx.input)
                THEN LET p1 == peek(lx)
                         p2 == peek(p1.l)
                     IN [l |-> errorf(p2.l, <<"Unknown character: %q (%d)", p1.r, p2.r>>),
                         pc |-> "lex"]
                ELSE [l |-> lx, pc |-> "run"]
  IN CHOOSE res \in {On(x) : x \in {lexer}} : TRUE

\* stateCode, lines 253-299: one iteration of its loop.
stateCode(lx) ==
  LET sp == accept(lx, tokenSpaceChars)
      id == accept(sp.l, tokenIdentifierChars)
      dg == accept(id.l, tokenDigits)
      qt == accept(dg.l, <<"\"">>)
  IN CASE sp.ok ->
            LET l1 == IF value(sp.l) = <<"\n">>
                      THEN [sp.l EXCEPT !.line = @ + 1, !.col = 1]
                      ELSE [sp.l EXCEPT !.col = @ + 1]
            IN [l |-> ignore(l1), pc |-> "stateCode"]
       [] ~sp.ok /\ id.ok -> [l |-> id.l, pc |-> "stateIdentifier"]
       [] ~sp.ok /\ ~id.ok /\ dg.ok -> [l |-> dg.l, pc |-> "stateNumber"]
       [] ~sp.ok /\ ~id.ok /\ ~dg.ok /\ qt.ok -> [l |-> qt.l, pc |-> "stateString"]
       [] OTHER -> stateCodeSymbol(qt.l)

\* isKeyword when a keyword is looked for at the beginning of the word.
isKeywordPrefix(v) == \E i \in 1..Len(tokenKeywords) : HasPrefix(v, tokenKeywords[i])

isKeyword(v) == \E i \in 1..Len(tokenKeywords) : tokenKeywords[i] = v

stateIdentifier(lx) ==
  LET l1 == acceptRun(lx, tokenIdentifierChars)
      l2 == acceptRun(l1, tokenDigits)
  IN IF isKeyword(value(l2))
     THEN [l |-> emit(l2, TokenKeyword), pc |-> "stateCode"]
     ELSE [l |-> emit([l2 EXCEPT !.col = @ + Len(value(l2))], TokenIdentifier),
           pc |-> "stateCode"]

\* stateNumber with the decimal point of lines 323-329 read.
stateNumberFloat(lx) ==
  LET l1 == acceptRun(lx, tokenDigits)
      dot == accept(l1, <<".">>)
      l2 == IF dot.ok THEN acceptRun(dot.l, tokenDigits) ELSE l1
  IN [l |-> emit([l2 EXCEPT !.col = @ + Len(value(l2))], TokenNumber),
      pc |-> "stateCode"]

stateNumber(lx) ==
  LET l1 == acceptRun(lx, tokenDigits)
  IN [l |-> emit([l1 EXCEPT !.col = @ + Len(value(l1))], TokenNumber),
      pc |-> "stateCode"]

\* stateString, line 337.
stateStringEnter(lx) == [l |-> ignore(lx), pc |-> "stateStringLoop"]

\* stateStringClose without the backup of line 343: the closing quote stays
\* in the token.
stateStringCloseNoBackup(lx) ==
  LET l2 == emit([lx EXCEPT !.col = @ + Len(value(lx))], TokenString)
  IN ignore(next(l2).l)

\* stateString, lines 343-348: after the loop.
stateStringClose(lx) ==
  LET l1 == backup(lx)
      l2 == emit([l1 EXCEPT !.col = @ + Len(value(l1))], TokenString)
  IN ignore(next(l2).l)

\* stateString, lines 338-348: one test of the loop condition and what
\* follows it.
stateStringLoop(lx) ==
  LET a == accept(lx, <<"\"">>)
  IN IF a.ok
     THEN [l |-> stateStringClose(a.l), pc |-> "stateCode"]
     ELSE LET n == next(a.l)
          IN IF n.r = EOF
             THEN [l |-> errorf(n.l, <<"Unexpected EOF, string not closed.">>),
                   pc |-> "lex"]
             ELSE [l |-> n.l, pc |-> "stateStringLoop"]

\* What lex returns (lines 102-107).  A nil token list is nilTokens; err is
\* empty for a nil error and else holds the fields of the error text.
NoResult == [tokens |-> <<>>, nilTokens |-> TRUE, err |-> <<>>]

lexResult(lx) ==
  IF lx.errored
  THEN LET errtoken == lx.tokens[Len(lx.tokens)]
       IN [tokens |-> <<>>, nilTokens |-> TRUE,
           err |-> <<[name |-> lx.name, Line |-> errtoken.Line, Col |-> errtoken.Col,
                      Val |-> errtoken.Val]>>]
  ELSE [tokens |-> lx.tokens, nilTokens |-> FALSE, err |-> <<>>]

(***************************************************************************)
(* The inputs of a scan: the examples of the documentation, and every      *)
(* concatenation of at most MaxPieces pieces (delimiters, a quote and one  *)
(* member of each class of characters), and every opened tag holding at   *)
(* most MaxTagPieces pieces of code.                                       *)
(***************************************************************************)

ExHello ==
  <<"H", "e", "l", "l", "o", " ", "{", "{", " ", "n", "a", "m", "e", " ", "}", "}", "!">>

ExComment ==
  <<"A", "{", "#", " ", "n", "o", "t", "e", " ", "#", "}", "B">>

ExKeyword ==
  <<"{", "%", " ", "i", "f", " ", "a", " ", "a", "n", "d", " ", "b", " ", "%", "}">>

ExOpenString ==
  <<"{", "{", " ", "\"", "a", "b", "c", " ", "}", "}">>

ExNumber ==
  <<"{", "{", " ", "4", ".", "2", " ", "}", "}">>

ExNumberWord ==
  <<"{", "{", " ", "4", "a", "b", "c", " ", "}", "}">>

ExEmptyStrings ==
  <<"{", "{", " ", "\"", "\"", " ", "\"", "\"", " ", "}", "}">>

ExTripleEq ==
  <<"{", "{", " ", "a", "=", "=", "=", "b", " ", "}", "}">>

ExWords ==
  <<"{", "{", " ", "a", "n", "d", " ", "A", "n", "d", " ", "i", "n", "1", " ",
    "a", "n", "d", "_", " ", "i", "f", " ", "}", "}">>

ExOpenTag ==
  <<"{", "{", " ", "n", "a", "m", "e">>

\* A tag opened by `{{` that holds `{%` and is closed by `%}`.
ExMixedTag ==
  <<"{", "{", "{", "%", "%", "}", "x">>

Examples ==
  { ExHello,
    ExComment,
    ExKeyword,
    ExOpenString,
    ExNumber,
    ExNumberWord,
    ExEmptyStrings,
    ExTripleEq,
    ExWords,
    ExMixedTag,
    ExOpenTag }

MaxPieces == 4

Pieces ==
  { <<"{", "{">>, <<"}", "}">>, <<"{", "#">>, <<"#", "}">>, <<"\"">>,
    <<" ">>, <<"\n">>, <<"x">>, <<"1">>, <<"\\x01">>, <<"\\xC3", "\\xA9">> }

MaxTagPieces == 3

TagPieces ==
  { <<"=">>, <<"<">>, <<">">>, <<"!">>, <<"|">>, <<"&">>, <<".">>,
    <<"{">>, <<"}">>, <<"%">>, <<"#">>, <<"\"">>, <<" ">>, <<"\n">>,
    <<"1">>, <<"x">>, <<"o", "r">>, <<"O", "r">>, <<"\\x01">>, <<"\\xC3", "\\xA9">> }

\* The concatenation of a sequence of pieces.
RECURSIVE Flatten(_)
Flatten(f) == IF f = <<>> THEN <<>> ELSE Head(f) \o Flatten(Tail(f))

\* The sequences of at most n members of ps.
PieceSeqs(ps, n) == UNION {[1..k -> ps] : k \in 0..n}

TagOpener == <<"{", "{">>

(***************************************************************************)
(* The specification: lex(TemplateName, input) for each of the inputs.     *)
(***************************************************************************)

StartOn(input) ==
  /\ l = NewLexer(TemplateName, input)
  /\ pc = "run"
  /\ ret = NoResult

\* A second scan, of its own lexer: its lexer, its place of control and what
\* its call of lex returned.  NoOther stands for there being none.
NoOther == [l |-> NewLexer(TemplateName, <<>>), pc |-> "none", ret |-> NoResult]

Init ==
  /\ \/ \E input \in Examples : StartOn(input)
     \/ \E f \in PieceSeqs(Pieces, MaxPieces) : StartOn(Flatten(f))
     \/ \E f \in PieceSeqs(TagPieces, MaxTagPieces) : StartOn(TagOpener \o Flatten(f))
  /\ other = NoOther

Step(r) ==
  /\ l' = r.l
  /\ pc' = r.pc
  /\ UNCHANGED <<ret, other>>

RunCommentOpen ==
  /\ pc = "run"
  /\ AtComment(l)
  /\ Step(runCommentOpen(l))

RunCommentLoop ==
  /\ pc = "comment"
  /\ Step(runCommentLoop(l))

RunTagOpen ==
  /\ pc = "run"
  /\ ~AtComment(l)
  /\ AtTag(l)
  /\ Step(runTagOpen(l))

RunText ==
  /\ pc = "run"
  /\ ~AtComment(l)
  /\ ~AtTag(l)
  /\ Step(runText(l))

StateCode ==
  /\ pc = "stateCode"
  /\ Step(stateCode(l))

StateIdentifier ==
  /\ pc = "stateIdentifier"
  /\ Step(stateIdentifier(l))

StateNumber ==
  /\ pc = "stateNumber"
  /\ Step(stateNumber(l))

StateStringEnter ==
  /\ pc = "stateString"
  /\ Step(stateStringEnter(l))

StateStringLoop ==
  /\ pc = "stateStringLoop"
  /\ Step(stateStringLoop(l))

LexReturn ==
  /\ pc = "lex"
  /\ ret' = lexResult(l)
  /\ pc' = "done"
  /\ UNCHANGED <<l, other>>

Next ==
  \/ RunCommentOpen
  \/ RunCommentLoop
  \/ RunTagOpen
  \/ RunText
  \/ StateCode
  \/ StateIdentifier
  \/ StateNumber
  \/ StateStringEnter
  \/ StateStringLoop
  \/ LexReturn

Spec == Init /\ [][Next]_vars

\* The same scans, of the inputs without the byte U+0001.
Plain(ps) == {p \in ps : "\\x01" \notin Range(p)}

InitPlain ==
  /\ \/ \E input \in Plain(Examples) : StartOn(input)
     \/ \E f \in PieceSeqs(Plain(Pieces), MaxPieces) : StartOn(Flatten(f))
     \/ \E f \in PieceSeqs(Plain(TagPieces), MaxTagPieces) :
          StartOn(TagOpener \o Flatten(f))
  /\ other = NoOther

SpecPlain == InitPlain /\ [][Next]_vars

\* lex runs the scan to its end in the thread of its caller (line 101): a
\* step that can be taken is taken.
MaxFairPieces == 2
MaxFairTagPieces == 1

InitFair ==
  /\ \/ \E input \in Examples : StartOn(input)
     \/ \E f \in PieceSeqs(Pieces, MaxFairPieces) : StartOn(Flatten(f))
     \/ \E f \in PieceSeqs(TagPieces, MaxFairTagPieces) :
          StartOn(TagOpener \o Flatten(f))
  /\ other = NoOther

SpecFair == InitFair /\ [][Next]_vars /\ WF_vars(Next)

\* The step run and tokenize take from the place p.
stepAt(lx, p) ==
  CASE p = "run" /\ AtComment(lx) -> runCommentOpen(lx)
    [] p = "run" /\ ~AtComment(lx) /\ AtTag(lx) -> runTagOpen(lx)
    [] p = "run" /\ ~AtComment(lx) /\ ~AtTag(lx) -> runText(lx)
    [] p = "comment" -> runCommentLoop(lx)
    [] p = "stateCode" -> stateCode(lx)
    [] p = "stateIdentifier" -> stateIdentifier(lx)
    [] p = "stateNumber" -> stateNumber(lx)
    [] p = "stateString" -> stateStringEnter(lx)
    [] p = "stateStringLoop" -> stateStringLoop(lx)

\* The lexer when run returns, started at the place p.
RECURSIVE scan(_, _)
scan(lx, p) ==
  IF p \in {"lex", "done"}
  THEN lx
  ELSE LET r == stepAt(lx, p)
       IN scan(r.l, r.pc)

(***************************************************************************)
(* Two calls of lex, each on the lexer it constructs, stepped in any       *)
(* order: the first is l, pc, ret and the second is other.                 *)
(***************************************************************************)

MaxTwoPieces == 1

TwoInputs == Examples \cup {Flatten(f) : f \in PieceSeqs(Pieces, MaxTwoPieces)}

Instance(input) ==
  [l |-> NewLexer(TemplateName, input), pc |-> "run", ret |-> NoResult]

InitTwo ==
  \E a, b \in TwoInputs :
    /\ StartOn(a)
    /\ other = Instance(b)

\* As if line and col were variables of the package: the step of a scan
\* starts from the column the other scan has reached.
stepOtherSharedCol(mine, theirs) ==
  LET r == stepAt([mine.l EXCEPT !.col = theirs.col], mine.pc)
  IN [mine EXCEPT !.l = r.l, !.pc = r.pc]

\* A step of the scan mine while the scan theirs is under way: the methods
\* read and write the fields of their own lexer only.
stepOther(mine, theirs) ==
  LET r == stepAt(mine.l, mine.pc)
  IN [mine EXCEPT !.l = r.l, !.pc = r.pc]

OtherStep ==
  /\ other.pc \notin {"none", "lex", "done"}
  /\ other' = stepOther(other, l)
  /\ UNCHANGED <<l, pc, ret>>

OtherReturn ==
  /\ other.pc = "lex"
  /\ other' = [other EXCEPT !.ret = lexResult(other.l), !.pc = "done"]
  /\ UNCHANGED <<l, pc, ret>>

NextTwo ==
  \/ Next
  \/ OtherStep
  \/ OtherReturn

SpecTwo == InitTwo /\ [][NextTwo]_vars

(***************************************************************************)
(* Vocabulary of the properties                                            *)
(***************************************************************************)

Last(s) == s[Len(s)]

\* lex has returned without an error / with an error.
Successful == pc = "done" /\ ret.err = <<>>

Failed == pc = "done" /\ ret.err # <<>>

\* The classes of bytes, by code point.
SpaceBytes == {" ", "\t", "\r", "\n"}

LetterBytes == {b \in Range(Printable) : Ord[b] \in (65..90) \cup (97..122)} \cup {"_"}

DigitBytes == {b \in Range(Printable) : Ord[b] \in 48..57}

ReservedWords ==
  { <<"i", "n">>, <<"a", "n", "d">>, <<"o", "r">>, <<"n", "o", "t">>,
    <<"t", "r", "u", "e">>, <<"f", "a", "l", "s", "e">> }

\* The text of a token as it stands in the source: a String token gets its
\* quotes back.
SourceText(tok) ==
  IF tok.Typ = TokenString THEN <<"\"">> \o tok.Val \o <<"\"">> ELSE tok.Val

RECURSIVE TokenText(_)
TokenText(toks) ==
  IF toks = <<>> THEN <<>> ELSE SourceText(Head(toks)) \o TokenText(Tail(toks))

\* The number of characters of a string.
RECURSIVE RuneCount(_)
RuneCount(s) ==
  IF s = <<>> THEN 0 ELSE 1 + RuneCount(SliceFrom(s, DecodeRuneInString(s).w))

\* The 1-based line and column of the character at byte offset off.
LineAt(input, off) == 1 + Cardinality({i \in 1..off : input[i] = "\n"})

ColAt(input, off) ==
  LET nl == {i \in 1..off : input[i] = "\n"}
      from == IF nl = {} THEN 0 ELSE CHOOSE i \in nl : \A j \in nl : j <= i
  IN 1 + RuneCount(Slice(input, from, off))

\* The part of the input the scan has read.
Consumed == Slice(l.input, 0, l.pos)

\* A step has appended a token that is not the Error token.
Emitted == Len(l'.tokens) > Len(l.tokens) /\ Last(l'.tokens).Typ # TokenError

\* The types and texts of a token list.
Kinds(toks) == [i \in 1..Len(toks) |-> <<toks[i].Typ, toks[i].Val>>]

(***************************************************************************)
(* C1  Round trip                                                          *)
(***************************************************************************)

\* t is s with nothing left out but whitespace bytes and whole comments
\* {# ... #}.
RECURSIVE Covers(_, _)
Covers(t, s) ==
  IF s = <<>>
  THEN t = <<>>
  ELSE \/ t # <<>> /\ Head(t) = Head(s) /\ Covers(Tail(t), Tail(s))
       \/ Head(s) \in SpaceBytes /\ Covers(t, Tail(s))
       \/ /\ HasPrefix(s, <<"{", "#">>)
          /\ \E k \in 3..(Len(s) - 1) :
               /\ s[k] = "#"
               /\ s[k + 1] = "}"
               /\ Covers(t, SliceFrom(s, k + 1))

NothingToDiscard(s) ==
  /\ \A i \in 1..Len(s) : s[i] \notin SpaceBytes
  /\ \A i \in 1..(Len(s) - 1) : ~(s[i] = "{" /\ s[i + 1] = "#")

EmittedAt == IF Last(l'.tokens).Typ = TokenString THEN l.start - 1 ELSE l.start

\* C2: in a scan that ends without error, every token appended carries the
\* line and the column, counted in characters from 1, of the first
\* character of its source span.
C2_TokenPositions ==
  [][(Emitted /\ ~scan(l, pc).errored) =>
       /\ Last(l'.tokens).Line = LineAt(l.input, EmittedAt)
       /\ Last(l'.tokens).Col = ColAt(l.input, EmittedAt)]_vars

(***************************************************************************)
(* C3  Comment transparency                                                *)
(***************************************************************************)

\* The offsets of the first "{" and of the first "#}" after the opener.
FirstBrace(s) ==
  LET at == {i \in 1..Len(s) : s[i] = "{"}
  IN IF at = {} THEN 0 ELSE CHOOSE i \in at : \A j \in at : i <= j

FirstCloser(s, from) ==
  LET at == {i \in from..(Len(s) - 1) : s[i] = "#" /\ s[i + 1] = "}"}
  IN IF at = {} THEN 0 ELSE CHOOSE i \in at : \A j \in at : i <= j

\* The input is A{#c#}B: A and B not empty, without "{" and newline, c
\* without newline and "#}".
IsCommentBetweenText(s) ==
  LET i == FirstBrace(s)
      k == FirstCloser(s, i + 2)
  IN /\ i > 1
     /\ i < Len(s)
     /\ s[i + 1] = "#"
     /\ k # 0
     /\ k + 1 < Len(s)
     /\ \A j \in 1..Len(s) : s[j] # "\n"
     /\ \A j \in (k + 2)..Len(s) : s[j] # "{"

\* C3: the scan of A{#c#}B returns the two tokens HTML(A) and HTML(B), and
\* HTML(B) is at the column 1 + length(A) + length of the whole comment.
C3_CommentTransparency ==
  (pc = "done" /\ IsCommentBetweenText(l.input)) =>
    LET i == FirstBrace(l.input)
        k == FirstCloser(l.input, i + 2)
    IN /\ ret.err = <<>>
       /\ ret.tokens =
            << [Typ |-> TokenHTML, Val |-> Slice(l.input, 0, i - 1),
                Line |-> 1, Col |-> 1],
               [Typ |-> TokenHTML, Val |-> SliceFrom(l.input, k + 1),
                Line |-> 1, Col |-> 1 + RuneCount(Slice(l.input, 0, k + 1))] >>

(***************************************************************************)
(* C4  Basic expression                                                    *)
(***************************************************************************)

\* C4: lex of `Hello {{ name }}!` returns HTML("Hello ")@1:1,
\* Symbol("{{")@1:7, Identifier("name")@1:10, Symbol("}}")@1:15,
\* HTML("!")@1:17 and no error.
C4_BasicExpression ==
  (pc = "done" /\ l.input = ExHello) =>
    /\ ret.err = <<>>
    /\ ret.tokens =
         << [Typ |-> TokenHTML, Val |-> <<"H", "e", "l", "l", "o", " ">>,
             Line |-> 1, Col |-> 1],
            [Typ |-> TokenSymbol, Val |-> <<"{", "{">>, Line |-> 1, Col |-> 7],
            [Typ |-> TokenIdentifier, Val |-> <<"n", "a", "m", "e">>,
             Line |-> 1, Col |-> 10],
            [Typ |-> TokenSymbol, Val |-> <<"}", "}">>, Line |-> 1, Col |-> 15],
            [Typ |-> TokenHTML, Val |-> <<"!">>, Line |-> 1, Col |-> 17] >>

(***************************************************************************)
(* C5  Fail-fast error contract                                            *)
(***************************************************************************)

NoErrorToken(toks) == \A i \in 1..Len(toks) : toks[i].Typ # TokenError

C5_Outcome ==
  /\ l.errored =>
       /\ l.tokens # <<>>
       /\ Last(l.tokens).Typ = TokenError
       /\ NoErrorToken(SubSeq(l.tokens, 1, Len(l.tokens) - 1))
  /\ ~l.errored => NoErrorToken(l.tokens)
  /\ pc = "done" =>
       \/ /\ ~l.errored
          /\ ret.err = <<>>
          /\ ~ret.nilTokens
          /\ ret.tokens = l.tokens
          /\ NoErrorToken(ret.tokens)
       \/ /\ l.errored
          /\ ret.nilTokens
          /\ ret.tokens = <<>>
          /\ Len(ret.err) = 1
          /\ ret.err[1].Val = Last(l.tokens).Val
          /\ ret.err[1].Line = Last(l.tokens).Line
          /\ ret.err[1].Col = Last(l.tokens).Col

\* C5: a scan ends either with a token list that holds no Error token and
\* no error, or with no tokens and the one error made from the Error token;
\* once errored is set the Error token is the last of the token list and
\* the lexer (token list, cursor) never changes again.
C5_FailFast == []C5_Outcome /\ [][l.errored => l' = l]_vars

\* A failed scan that had emitted tokens before the error.
C5_Witness == Failed /\ Len(l.tokens) >= 3

(***************************************************************************)
(* C6  String literals                                                     *)
(***************************************************************************)

\* The 1-based index of the first member of set in s, or 0.
FirstIn(s, set) ==
  LET at == {i \in 1..Len(s) : s[i] \in set}
  IN IF at = {} THEN 0 ELSE CHOOSE i \in at : \A j \in at : i <= j

StringNotClosed == <<"Unexpected EOF, string not closed.">>

\* C6: when the opening quote of a string has been read, the next token of
\* the scan is the String token holding exactly the bytes up to the next
\* quote if there is one in the rest of the input, and else the error
\* 'string not closed', with which lex returns no tokens.
C6_StringLiterals ==
  pc = "stateString" =>
    LET rest == SliceFrom(l.input, l.pos)
        q == FirstIn(rest, {"\""})
        f == scan(l, pc)
        tok == f.tokens[Len(l.tokens) + 1]
    IN IF q # 0
       THEN tok.Typ = TokenString /\ tok.Val = SubSeq(rest, 1, q - 1)
       ELSE /\ tok.Typ = TokenError
            /\ tok.Val = StringNotClosed
            /\ lexResult(f).nilTokens
            /\ lexResult(f).err # <<>>

(***************************************************************************)
(* C7  Keyword classification                                              *)
(***************************************************************************)

\* The number of bytes of s from the 0-based offset off on that are in set.
RECURSIVE RunLength(_, _, _)
RunLength(s, off, set) ==
  IF off < Len(s) /\ s[off + 1] \in set THEN 1 + RunLength(s, off + 1, set) ELSE 0

\* The word at off: the longest run of letters and underscores and then the
\* longest run of digits.
WordAt(s, off) ==
  LET n == RunLength(s, off, LetterBytes)
      m == RunLength(s, off + n, DigitBytes)
  IN Slice(s, off, off + n + m)

C7_Example ==
  (pc = "done" /\ l.input = ExKeyword) =>
    /\ ret.err = <<>>
    /\ Kinds(ret.tokens) =
         << <<TokenSymbol, <<"{", "%">> >>,
            <<TokenIdentifier, <<"i", "f">> >>,
            <<TokenIdentifier, <<"a">> >>,
            <<TokenKeyword, <<"a", "n", "d">> >>,
            <<TokenIdentifier, <<"b">> >>,
            <<TokenSymbol, <<"%", "}">> >> >>

\* C7: the token of a word scanned in a tag holds the whole word; it is a
\* Keyword if the word is one of in, and, or, not, true, false and an
\* Identifier if not; and `{% if a and b %}` gives Symbol, Identifier(if),
\* Identifier(a), Keyword(and), Identifier(b), Symbol.
C7_Keywords ==
  /\ []C7_Example
  /\ [][pc = "stateIdentifier" =>
          /\ Len(l'.tokens) = Len(l.tokens) + 1
          /\ Last(l'.tokens).Val = WordAt(l.input, l.start)
          /\ Last(l'.tokens).Typ =
               IF WordAt(l.input, l.start) \in ReservedWords
               THEN TokenKeyword
               ELSE TokenIdentifier]_vars

\* A result with a Keyword and with an Identifier that begins with that
\* reserved word.
C7_Witness ==
  /\ Successful
  /\ \E i, j \in 1..Len(ret.tokens) :
       /\ ret.tokens[i].Typ = TokenKeyword
       /\ ret.tokens[j].Typ = TokenIdentifier
       /\ HasPrefix(ret.tokens[j].Val, ret.tokens[i].Val)

(***************************************************************************)
(* C8  Longest-match symbols                                               *)
(***************************************************************************)

\* C8: the Symbol token a step of stateCode emits is an entry of the symbol
\* table that is a prefix of the remaining input, and no longer entry is.
C8_LongestMatch ==
  [][(pc = "stateCode" /\ Emitted /\ Last(l'.tokens).Typ = TokenSymbol) =>
       LET rest == SliceFrom(l.input, l.pos)
           sym == Last(l'.tokens).Val
       IN /\ sym \in Range(tokenSymbols)
          /\ HasPrefix(rest, sym)
          /\ \A entry \in Range(tokenSymbols) :
               HasPrefix(rest, entry) => Len(entry) <= Len(sym)]_vars

\* `===` has been scanned as `==` and `=`.
C8_Witness ==
  /\ Successful
  /\ l.input = ExTripleEq
  /\ \E i \in 1..(Len(ret.tokens) - 1) :
       /\ Kinds(ret.tokens)[i] = <<TokenSymbol, <<"=", "=">> >>
       /\ Kinds(ret.tokens)[i + 1] = <<TokenSymbol, <<"=">> >>

(***************************************************************************)
(* C9  Integer-only numbers                                                *)
(***************************************************************************)

C9_Examples ==
  /\ (pc = "done" /\ l.input = ExNumber) =>
       /\ ret.err = <<>>
       /\ Kinds(ret.tokens) =
            << <<TokenSymbol, <<"{", "{">> >>,
               <<TokenNumber, <<"4">> >>,
               <<TokenSymbol, <<".">> >>,
               <<TokenNumber, <<"2">> >>,
               <<TokenSymbol, <<"}", "}">> >> >>
  /\ (pc = "done" /\ l.input = ExNumberWord) =>
       /\ ret.err = <<>>
       /\ Kinds(ret.tokens) =
            << <<TokenSymbol, <<"{", "{">> >>,
               <<TokenNumber, <<"4">> >>,
               <<TokenIdentifier, <<"a", "b", "c">> >>,
               <<TokenSymbol, <<"}", "}">> >> >>

\* C9: the token of a number scanned in a tag is a Number holding the
\* longest run of digits at that place, which is not empty, and scanning it
\* raises no error; `{{ 4.2 }}` gives Number(4), Symbol(.), Number(2) and
\* `{{ 4abc }}` gives Number(4), Identifier(abc).
C9_IntegerNumbers ==
  /\ []C9_Examples
  /\ [][pc = "stateNumber" =>
          LET run == RunLength(l.input, l.start, DigitBytes)
          IN /\ run >= 1
             /\ Len(l'.tokens) = Len(l.tokens) + 1
             /\ Last(l'.tokens).Typ = TokenNumber
             /\ Last(l'.tokens).Val = Slice(l.input, l.start, l.start + run)
             /\ ~l'.errored]_vars

\* A result with two Number tokens around the Symbol `.`.
C9_Witness ==
  /\ Successful
  /\ \E i \in 1..(Len(ret.tokens) - 2) :
       /\ ret.tokens[i].Typ = TokenNumber
       /\ Kinds(ret.tokens)[i + 1] = <<TokenSymbol, <<".">> >>
       /\ ret.tokens[i + 2].Typ = TokenNumber

(***************************************************************************)
(* C10  Strictly increasing positions                                      *)
(***************************************************************************)

PositionBefore(a, b) == a.Line < b.Line \/ (a.Line = b.Line /\ a.Col < b.Col)

\* C10: in a successful result the (Line, Col) of every token is strictly
\* before the (Line, Col) of the token after it.
C10_StrictlyIncreasing ==
  Successful =>
    \A i \in 1..(Len(ret.tokens) - 1) :
      PositionBefore(ret.tokens[i], ret.tokens[i + 1])

(***************************************************************************)
(* C11  Comment errors                                                     *)
(***************************************************************************)

\* The lexer and the place of control when the comment loop of run is left.
RECURSIVE afterComment(_)
afterComment(lx) ==
  LET r == runCommentLoop(lx)
  IN IF r.pc = "comment" THEN afterComment(r.l) ELSE r

\* The 1-based index of the first "#}" of s, or 0.
FirstCommentEnd(s) == FirstCloser(s, 1)

CommentNotClosed == <<"Single-line comment not closed.">>

CommentNewline == <<"Newline not permitted in a single-line comment.">>

\* C11: when run is at `{#`, the pending text is first emitted as one HTML
\* token; the scan then goes on after the first `#}` without error if a
\* `#}` follows the opener with no newline before it, fails with the
\* newline error if a newline comes first, and fails with 'not closed' if
\* the input ends first.
C11_CommentErrors ==
  (pc = "run" /\ AtComment(l)) =>
    LET opened == runCommentOpen(l).l
        r == afterComment(opened)
        body == SliceFrom(l.input, l.pos + 2)
        k == FirstCommentEnd(body)
        n == FirstIn(body, {"\n"})
    IN /\ opened.tokens =
            IF l.pos > l.start
            THEN Append(l.tokens, [Typ |-> TokenHTML, Val |-> value(l),
                                   Line |-> l.startline, Col |-> l.startcol])
            ELSE l.tokens
       /\ IF k # 0 /\ (n = 0 \/ k < n)
          THEN /\ r.pc = "run"
               /\ ~r.l.errored
               /\ r.l.tokens = opened.tokens
               /\ r.l.pos = l.pos + 2 + k + 1
          ELSE /\ r.pc = "lex"
               /\ r.l.errored
               /\ Last(r.l.tokens).Val = IF n # 0 THEN CommentNewline ELSE CommentNotClosed

(***************************************************************************)
(* C12  Instance independence and determinism                              *)
(***************************************************************************)

\* What lex returns for an input when it runs alone.
Alone(input) == lexResult(scan(NewLexer(TemplateName, input), "run"))

Openers == {<<"{", "{">>, <<"{", "%">>}
Closers == {<<"}", "}">>, <<"%", "}">>}

\* The step has emitted a Symbol token whose text is in the set.
EmittedSymbolOf(set) ==
  /\ Emitted
  /\ Last(l'.tokens).Typ = TokenSymbol
  /\ Last(l'.tokens).Val \in set

InCode == pc \in {"stateCode", "stateIdentifier", "stateNumber", "stateString",
                  "stateStringLoop"}

\* C13 as stated: a step that takes the scan from code mode back to text
\* mode is the step that emits `}}` or `%}`.
C13_AlwaysUntilCloser ==
  [][(InCode /\ pc' = "run") => EmittedSymbolOf(Closers)]_vars

\* C13, amended: a step that takes the scan from code mode back to text
\* mode either emits `}}` or `%}` or finds the input exhausted and changes
\* nothing; a step that emits a closer leaves code mode at once, whatever
\* the opener was; an opener met in code mode is a Symbol and code mode
\* goes on; no other step leaves code mode except by an error.
C13_UntilCloserOrEnd ==
  [][InCode =>
       /\ pc' = "run" =>
            \/ pc = "stateCode" /\ EmittedSymbolOf(Closers)
            \/ /\ pc = "stateCode"
               /\ l.pos = Len(l.input)
               /\ l'.pos = l.pos
               /\ l'.tokens = l.tokens
       /\ EmittedSymbolOf(Closers) => pc' = "run"
       /\ EmittedSymbolOf(Openers) => pc' = "stateCode"
       /\ pc' \notin {"run", "lex"} => pc' \in {"stateCode", "stateIdentifier",
                                                   "stateNumber", "stateString",
                                                   "stateStringLoop"}
       /\ pc' = "lex" => l'.errored]_vars

\* A tag opened by `{{` has held a `{%` as a Symbol and has been closed by
\* `%}`: the scan is back in text mode.
C13_Witness ==
  /\ pc = "run"
  /\ l.input = ExMixedTag
  /\ Len(l.tokens) = 3
  /\ Kinds(l.tokens) = << <<TokenSymbol, <<"{", "{">> >>,
                          <<TokenSymbol, <<"{", "%">> >>,
                          <<TokenSymbol, <<"%", "}">> >> >>

(***************************************************************************)
(* C14  End of input inside a tag                                          *)
(***************************************************************************)

\* C14: when the input is exhausted in code mode between two tokens, the
\* scan ends without an error and returns the tokens emitted so far, with
\* no Error token and no HTML token after them; `{{ name` yields the
\* Symbol `{{` and the Identifier `name`.
C14_EndInsideTag ==
  /\ (pc = "stateCode" /\ l.pos = Len(l.input)) =>
       LET end == scan(l, pc)
       IN /\ ~end.errored
          /\ end.tokens = l.tokens
          /\ lexResult(end) = [tokens |-> l.tokens, nilTokens |-> FALSE, err |-> <<>>]
  /\ (pc = "done" /\ l.input = ExOpenTag) =>
       /\ ret.err = <<>>
       /\ Kinds(ret.tokens) = << <<TokenSymbol, <<"{", "{">> >>,
                                 <<TokenIdentifier, <<"n", "a", "m", "e">> >> >>

\* lex has returned the tokens of a tag that was open when the input ended:
\* the last piece of code mode read was a closed string.
C14_Witness ==
  /\ Successful
  /\ l.pos = Len(l.input)
  /\ Len(ret.tokens) >= 2
  /\ Last(ret.tokens).Typ = TokenString
  /\ \A i \in 1..Len(ret.tokens) : ret.tokens[i].Typ # TokenHTML

(***************************************************************************)
(* C15  Line counting                                                      *)
(***************************************************************************)

\* C15: whenever the scan is between two pieces of work (in the loop of run
\* or in the loop of stateCode), line is 1 plus the number of newlines read
\* so far, and col is 1 when the last character read is a newline.
C15_LineCounting ==
  pc \in {"run", "stateCode"} =>
    /\ l.line = LineAt(l.input, l.pos)
    /\ (l.pos > 0 /\ l.input[l.pos] = "\n") => l.col = 1

(***************************************************************************)
(* C16  Termination                                                        *)
(***************************************************************************)

\* The lexer when tokenize returns to run, started at the place p of code mode.
RECURSIVE afterTag(_, _)
afterTag(lx, p) ==
  IF p \in {"run", "lex", "done"}
  THEN [l |-> lx, pc |-> p]
  ELSE LET r == stepAt(lx, p)
       IN afterTag(r.l, r.pc)

\* C16: every scan reaches the return of lex, with the tokens or with the
\* error; an iteration of the loop of run in text mode, of the comment
\* loop, of the loop of stateCode or of the string loop that does not end
\* the loop moves pos forward, and so does an iteration of the loop of run
\* that scans a tag, unless it ends the scan.
C16_Termination ==
  /\ <>(pc = "done")
  /\ [][(pc \in {"run", "comment", "stateCode", "stateStringLoop"} /\ pc' = pc) =>
          l'.pos > l.pos]_vars
  /\ []((pc = "run" /\ AtTag(l)) =>
          LET r == afterTag(runTagOpen(l).l, "stateCode")
          IN r.pc = "lex" \/ r.l.pos > l.pos)

\* lex has returned the tokens of a scan of ten bytes or more that went
\* through text mode and through a tag.
C16_Witness ==
  /\ Successful
  /\ Len(l.input) >= 10
  /\ Len(ret.tokens) >= 5
  /\ \E i \in 1..Len(ret.tokens) : ret.tokens[i].Typ = TokenHTML

(***************************************************************************)
(* C17  Unknown character                                                  *)
(***************************************************************************)

UnknownCharacter(r) == <<"Unknown character: %q (%d)", r, r>>

\* The remaining input begins with something code mode knows: whitespace,
\* a letter or `_`, a digit, a double quote or an entry of the symbol table.
KnownInCode(rest) ==
  \/ rest[1] \in SpaceBytes \cup LetterBytes \cup DigitBytes \cup {"\""}
  \/ \E i \in 1..Len(tokenSymbols) : HasPrefix(rest, tokenSymbols[i])

\* C17: a step of code mode with input remaining either finds something it
\* knows, and then moves on in the input without an error, or fails with
\* the Unknown character error that names the character at pos, reads no
\* further, and lex returns no tokens.
C17_UnknownCharacter ==
  [][(pc = "stateCode" /\ l.pos < Len(l.input)) =>
       LET rest == SliceFrom(l.input, l.pos)
       IN IF KnownInCode(rest)
          THEN /\ ~l'.errored
               /\ l'.pos > l.pos
               /\ pc' # "lex"
          ELSE /\ l'.errored
               /\ pc' = "lex"
               /\ l'.pos = l.pos
               /\ Len(l'.tokens) = Len(l.tokens) + 1
               /\ Last(l'.tokens).Typ = TokenError
               /\ Last(l'.tokens).Val = UnknownCharacter(DecodeRuneInString(rest).r)
               /\ lexResult(l').nilTokens
               /\ lexResult(l').tokens = <<>>
               /\ lexResult(l').err # <<>>]_vars

\* A tag has failed on the character U+00E9 after two tokens were emitted,
\* and lex has returned the error and no tokens.
C17_Witness ==
  /\ Failed
  /\ Len(l.tokens) = 3
  /\ Last(l.tokens).Val = UnknownCharacter(233)
  /\ ret.tokens = <<>>
  /\ ret.err[1].Val = UnknownCharacter(233)

(***************************************************************************)
(* C18  End of input only at the end of the input                          *)
(***************************************************************************)

\* C18: lex returns tokens only when pos has reached the end of the input,
\* the tokens then cover the whole input but for what is discarded, and
\* the error of a string that is not closed is never reported while a
\* double quote remains in the unread input.
C18_EndOnlyAtEnd ==
  /\ Successful =>
       /\ l.pos = Len(l.input)
       /\ Covers(TokenText(ret.tokens), l.input)
  /\ (l.errored /\ Last(l.tokens).Val = StringNotClosed) =>
       "\"" \notin Range(SliceFrom(l.input, l.pos))

(***************************************************************************)
(* C19  Keywords, identifiers and numbers advance the column alike         *)
(***************************************************************************)

\* C19: the step that ends a word or a number emits a Keyword, an
\* Identifier or a Number token and leaves col greater by the length of the
\* text of the token.
C19_ColumnAdvance ==
  [][(pc \in {"stateIdentifier", "stateNumber"}) =>
       /\ Emitted
       /\ Last(l'.tokens).Typ \in {TokenKeyword, TokenIdentifier, TokenNumber}
       /\ l'.col = l.col + Len(Last(l'.tokens).Val)]_vars

(***************************************************************************)
(* C20  Cursor bounds                                                      *)
(***************************************************************************)

\* C20: start and pos stay within the input, start never after pos; start
\* is pos whenever the loop of stateCode begins an iteration, and so when
\* it looks a symbol up; and when errored is set the last token is the
\* Error token lex reads.
C20_CursorBounds ==
  /\ 0 <= l.start
  /\ l.start <= l.pos
  /\ l.pos <= Len(l.input)
  /\ pc = "stateCode" => l.start = l.pos
  /\ l.errored => (l.tokens # <<>> /\ Last(l.tokens).Typ = TokenError)
  /\ l.errored <=> pc \in {"lex", "done"} /\ lexResult(l).err # <<>>

\* A comment or a string was open when the input ended: the error is set
\* after two tokens, pos is at the end of the input and start is before it.
C20_Witness ==
  /\ pc = "lex"
  /\ l.errored
  /\ Len(l.tokens) = 3
  /\ l.start < l.pos
  /\ l.pos = Len(l.input)

====
